---- MODULE Spec2Model ----
(***************************************************************************)
(* ranger.gui.ansi / ranger.gui.color: the ANSI escape tokenizer, the SGR  *)
(* attribute resolver, the width-aware measurer/slicer and the palette     *)
(* registration they call.                                                 *)
(*                                                                         *)
(* A Python string is a sequence of characters; a character is a one-      *)
(* symbol TLA+ string.  "ESC" stands for '\x1b', "WIDE" for a glyph of     *)
(* East-Asian width W/F (two display cells) and "" for the placeholder     *)
(* cell a WideString keeps behind a wide glyph.                            *)
(*                                                                         *)
(* Sequences are lists as Python 2 builds them (map() returns a list).     *)
(***************************************************************************)
EXTENDS Integers, Sequences, FiniteSets, TLC

VARIABLES
    ansi_text,          \* the argument string of the running call
    start, length,      \* char_slice arguments
    pc,                 \* position of the running call
    tokens,             \* split_ansi_from_text(ansi_text), the list a loop walks
    i,                  \* index of the next element of tokens (0-based, as enumerate)
    pos, old_pos,       \* char_slice locals
    last_color,         \* char_slice local
    chunks,             \* char_slice local: the list joined on return
    sliced,             \* value returned by char_slice
    n,                  \* value returned by char_len
    fg, bg, attr,       \* text_with_fg_bg_attr locals
    yielded,            \* what text_with_fg_bg_attr has yielded so far
    exc,                \* exception that ended the call ("none" if none)
    Colors,             \* get_color_id.Colors
    NextColorIndex,     \* get_color_id.NextColorIndex
    COLORS,             \* curses.COLORS of the terminal
    can_change_color,   \* curses.can_change_color() of the terminal
    call_args,          \* arguments of the last direct call of get_color_id or get_color
    returned,           \* what that call returned
    COLOR_PAIRS,        \* color.COLOR_PAIRS
    init_pairs          \* what curses.init_pair has set, by pair number

vars == <<ansi_text, start, length, pc, tokens, i, pos, old_pos, last_color,
          chunks, sliced, n, fg, bg, attr, yielded, exc, Colors, NextColorIndex,
          COLORS, can_change_color, call_args, returned, COLOR_PAIRS,
          init_pairs>>

sliceVars == <<start, length, i, pos, old_pos, last_color, chunks, sliced>>
genVars   == <<fg, bg, attr, yielded, exc>>
palVars   == <<Colors, NextColorIndex>>
termVars  == <<COLORS, can_change_color>>
callVars  == <<call_args, returned>>
pairVars  == <<COLOR_PAIRS, init_pairs>>

(***************************************************************************)
(* Bounds of the explored inputs.                                          *)
(***************************************************************************)
MaxFragments == 5       \* fragments per tokenizer input
MaxPieces    == 4       \* pieces per slicer input
MaxStart     == 2       \* largest start passed to char_slice
MaxLength    == 2       \* largest length passed to char_slice
MaxTokens    == 3       \* pieces per resolver input
MaxRegistered == 3      \* colors registered before the calls of get_color_id stop
MaxPairs     == 3       \* entries of COLOR_PAIRS before the calls of get_color stop

(***************************************************************************)
(* Characters.                                                             *)
(***************************************************************************)
ESC == "ESC"

Digits == {"0", "1", "2", "3", "4", "5", "6", "7", "8", "9"}

Letters ==
    {"a", "b", "c", "d", "e", "f", "g", "h", "i", "j", "k", "l", "m",
     "n", "o", "p", "q", "r", "s", "t", "u", "v", "w", "x", "y", "z",
     "A", "B", "C", "D", "E", "F", "G", "H", "I", "J", "K", "L", "M",
     "N", "O", "P", "Q", "R", "S", "T", "U", "V", "W", "X", "Y", "Z"}

WideGlyphs == {"WIDE"}

DigitValue(c) ==
    CASE c = "0" -> 0 [] c = "1" -> 1 [] c = "2" -> 2 [] c = "3" -> 3
      [] c = "4" -> 4 [] c = "5" -> 5 [] c = "6" -> 6 [] c = "7" -> 7
      [] c = "8" -> 8 [] c = "9" -> 9

\* ''.join(list)
RECURSIVE join(_)
join(list) ==
    IF list = <<>> THEN <<>> ELSE Head(list) \o join(Tail(list))

(***************************************************************************)
(* ansi_re = '(\x1b\[\d*(?:;\d+)*?[a-zA-Z])'                               *)
(* The character classes of the pattern are disjoint, so from a given      *)
(* start there is at most one way to match.                                *)
(***************************************************************************)
\* \d* from position q (1-based): the position after the digits
RECURSIVE SkipDigits(_, _)
SkipDigits(s, q) ==
    IF q <= Len(s) /\ s[q] \in Digits THEN SkipDigits(s, q + 1) ELSE q

\* (?:;\d+)* from position q: the position after the groups
RECURSIVE SkipGroups(_, _)
SkipGroups(s, q) ==
    IF q + 1 <= Len(s) /\ s[q] = ";" /\ s[q + 1] \in Digits
    THEN SkipGroups(s, SkipDigits(s, q + 1))
    ELSE q

\* position of the last character of the match of ansi_re that begins at
\* p, or 0 when the pattern does not match there
ansi_re(s, p) ==
    IF p + 1 <= Len(s) /\ s[p] = ESC /\ s[p + 1] = "["
    THEN LET q == SkipGroups(s, SkipDigits(s, p + 2))
         IN  IF q <= Len(s) /\ s[q] \in Letters THEN q ELSE 0
    ELSE 0

\* re_split with a group that does not capture: the matches are dropped
RECURSIVE re_split_nocapture(_, _, _)
re_split_nocapture(s, p, cur) ==
    IF p > Len(s) THEN <<cur>>
    ELSE LET e == ansi_re(s, p)
         IN  IF e # 0
             THEN <<cur>> \o re_split_nocapture(s, e + 1, <<>>)
             ELSE re_split_nocapture(s, p + 1, Append(cur, s[p]))

\* ansi_re.split(s) scanning from p with the text collected so far in cur:
\* the pattern has one capturing group, so the matches are kept between
\* the text pieces
RECURSIVE re_split(_, _, _)
re_split(s, p, cur) ==
    IF p > Len(s) THEN <<cur>>
    ELSE LET e == ansi_re(s, p)
         IN  IF e # 0
             THEN <<cur, SubSeq(s, p, e)>> \o re_split(s, e + 1, <<>>)
             ELSE re_split(s, p + 1, Append(cur, s[p]))

split_ansi_from_text(s) == re_split(s, 1, <<>>)

\* ansi_re.sub('', s) scanning from p
RECURSIVE re_sub(_, _)
re_sub(s, p) ==
    IF p > Len(s) THEN <<>>
    ELSE LET e == ansi_re(s, p)
         IN  IF e # 0 THEN re_sub(s, e + 1)
             ELSE <<s[p]>> \o re_sub(s, p + 1)

(***************************************************************************)
(* ranger.ext.widestring.WideString: a list of display cells.  A wide      *)
(* glyph takes two cells, the glyph and an empty placeholder; a slice is   *)
(* taken by cells and a glyph cut in half is shown as a blank.             *)
(***************************************************************************)
RECURSIVE WideString(_)
WideString(s) ==
    IF s = <<>> THEN <<>>
    ELSE (IF Head(s) \in WideGlyphs THEN <<Head(s), "">> ELSE <<Head(s)>>)
         \o WideString(Tail(s))

\* str(widestring)
RECURSIVE WideStr(_)
WideStr(chars) ==
    IF chars = <<>> THEN <<>>
    ELSE (IF Head(chars) = "" THEN <<>> ELSE <<Head(chars)>>)
         \o WideStr(Tail(chars))

\* widestring[a:b] with Python's treatment of out-of-range bounds
WideSlice(chars, a, b) ==
    LET len == Len(chars)
        b1  == IF b > len THEN len ELSE IF b < 0 THEN len + b ELSE b
        a1  == IF a < 0 THEN 0 ELSE a
    IN  IF b1 <= a1 THEN <<>>
        ELSE [k \in 1..(b1 - a1) |->
                IF k = 1 /\ chars[a1 + 1] = "" THEN " "
                ELSE IF k = b1 - a1 /\ b1 < len /\ chars[b1 + 1] = "" THEN " "
                ELSE chars[a1 + k]]

\* char_len that counts code points instead of display cells
char_len_codepoints(s) == Len(re_sub(s, 1))

\* char_len
char_len(s) == Len(WideString(re_sub(s, 1)))

(***************************************************************************)
(* ranger.gui.color: the curses constants and the palette registration.   *)
(***************************************************************************)
normal    == 0          \* curses.A_NORMAL
underline == 131072     \* curses.A_UNDERLINE
reverse   == 262144     \* curses.A_REVERSE
blink     == 524288     \* curses.A_BLINK
bold      == 2097152    \* curses.A_BOLD
invisible == 8388608    \* curses.A_INVIS

black   == 0            \* curses.COLOR_BLACK
red     == 1            \* curses.COLOR_RED
green   == 2            \* curses.COLOR_GREEN
yellow  == 3            \* curses.COLOR_YELLOW
blue    == 4            \* curses.COLOR_BLUE
magenta == 5            \* curses.COLOR_MAGENTA
cyan    == 6            \* curses.COLOR_CYAN
white   == 7            \* curses.COLOR_WHITE

PredefinedColorCount == 24

\* curses.color_content(color) of the eight predefined colors
color_content(color) ==
    << (IF color \in {red, yellow, magenta, white} THEN 680 ELSE 0),
       (IF color \in {green, yellow, cyan, white} THEN 680 ELSE 0),
       (IF color \in {blue, magenta, cyan, white} THEN 680 ELSE 0) >>

\* the dict comprehension of get_color_id: a later color replaces an
\* earlier one with the same content
RECURSIVE PredefinedColors(_)
PredefinedColors(colors) ==
    IF colors = <<>> THEN <<>>
    ELSE LET front == SubSeq(colors, 1, Len(colors) - 1)
             last  == colors[Len(colors)]
         IN  (color_content(last) :> last) @@ PredefinedColors(front)

\* int(1000 * (float(c) / 256.0)): c * 1000 / 256 is exact in binary
ScaleComponent(c) == (1000 * c) \div 256

\* get_color_id that numbers the new colors from 0 instead of from
\* PredefinedColorCount
get_color_id_no_offset(r, g, b, pal) ==
    LET colors == IF DOMAIN pal.Colors = {}
                  THEN PredefinedColors(<<black, blue, cyan, green,
                                          magenta, red, white, yellow>>)
                  ELSE pal.Colors
        key    == <<ScaleComponent(r), ScaleComponent(g), ScaleComponent(b)>>
    IN  IF key \notin DOMAIN colors
        THEN IF \/ Cardinality(DOMAIN colors) + PredefinedColorCount >= COLORS
                \/ ~can_change_color
             THEN [id |-> -1, Colors |-> colors,
                   NextColorIndex |-> pal.NextColorIndex]
             ELSE LET colid == pal.NextColorIndex % (COLORS - PredefinedColorCount)
                  IN  [id |-> colid, Colors |-> (key :> colid) @@ colors,
                       NextColorIndex |-> pal.NextColorIndex + 1]
        ELSE [id |-> colors[key], Colors |-> colors,
              NextColorIndex |-> pal.NextColorIndex]

\* get_color_id(r, g, b) called with the palette pal = [Colors, NextColorIndex];
\* gives the id returned and the palette left behind
get_color_id(r, g, b, pal) ==
    LET colors == IF DOMAIN pal.Colors = {}
                  THEN PredefinedColors(<<black, blue, cyan, green,
                                          magenta, red, white, yellow>>)
                  ELSE pal.Colors
        key    == <<ScaleComponent(r), ScaleComponent(g), ScaleComponent(b)>>
    IN  IF key \notin DOMAIN colors
        THEN IF \/ Cardinality(DOMAIN colors) + PredefinedColorCount >= COLORS
                \/ ~can_change_color
             THEN [id |-> -1, Colors |-> colors,
                   NextColorIndex |-> pal.NextColorIndex]
             ELSE LET colid == (pal.NextColorIndex % (COLORS - PredefinedColorCount))
                               + PredefinedColorCount
                  IN  [id |-> colid, Colors |-> (key :> colid) @@ colors,
                       NextColorIndex |-> pal.NextColorIndex + 1]
        ELSE [id |-> colors[key], Colors |-> colors,
              NextColorIndex |-> pal.NextColorIndex]

(***************************************************************************)
(* Python integers and strings.                                            *)
(***************************************************************************)
\* a | b and a & b on non-negative integers
RECURSIVE BitOr(_, _)
BitOr(a, b) ==
    IF a = 0 THEN b
    ELSE IF b = 0 THEN a
    ELSE (IF a % 2 = 1 \/ b % 2 = 1 THEN 1 ELSE 0) + 2 * BitOr(a \div 2, b \div 2)

RECURSIVE BitAnd(_, _)
BitAnd(a, b) ==
    IF a = 0 \/ b = 0 THEN 0
    ELSE (IF a % 2 = 1 /\ b % 2 = 1 THEN 1 ELSE 0) + 2 * BitAnd(a \div 2, b \div 2)

\* not x, as the integer it is in an arithmetic expression (True = 1)
PyNot(x) == IF x = 0 THEN 1 ELSE 0

\* str.split(';')
RECURSIVE SplitSemicolon(_, _)
SplitSemicolon(s, cur) ==
    IF s = <<>> THEN <<cur>>
    ELSE IF Head(s) = ";" THEN <<cur>> \o SplitSemicolon(Tail(s), <<>>)
    ELSE SplitSemicolon(Tail(s), Append(cur, Head(s)))

\* str.strip() for the blank
RECURSIVE Strip(_)
Strip(s) ==
    IF s = <<>> THEN s
    ELSE IF Head(s) = " " THEN Strip(Tail(s))
    ELSE IF s[Len(s)] = " " THEN Strip(SubSeq(s, 1, Len(s) - 1))
    ELSE s

\* int(s) succeeds (the alphabet has no sign characters)
IsInt(s) ==
    /\ Strip(s) # <<>>
    /\ \A k \in 1..Len(Strip(s)) : Strip(s)[k] \in Digits

RECURSIVE DecimalValue(_)
DecimalValue(s) ==
    IF s = <<>> THEN 0
    ELSE 10 * DecimalValue(SubSeq(s, 1, Len(s) - 1)) + DigitValue(s[Len(s)])

\* int(s)
PyInt(s) == DecimalValue(Strip(s))

(***************************************************************************)
(* The attribute resolver.                                                 *)
(***************************************************************************)
\* parse_attr with a branch for code 3 (italics), shown as underline
parse_attr_italic(code, f, b, a) ==
    IF code = 0 THEN <<-1, -1, 0>>
    ELSE IF code = 1 THEN <<f, b, BitOr(a, bold)>>
    ELSE IF code = 3 THEN <<f, b, BitOr(a, underline)>>
    ELSE IF code = 4 THEN <<f, b, BitOr(a, underline)>>
    ELSE IF code = 5 THEN <<f, b, BitOr(a, blink)>>
    ELSE IF code = 7 THEN <<f, b, BitOr(a, reverse)>>
    ELSE IF code = 8 THEN <<f, b, BitOr(a, invisible)>>
    ELSE IF code = 22 THEN <<f, b, BitAnd(a, PyNot(bold))>>
    ELSE IF code = 24 THEN <<f, b, BitAnd(a, PyNot(underline))>>
    ELSE IF code = 25 THEN <<f, b, BitAnd(a, PyNot(blink))>>
    ELSE IF code = 27 THEN <<f, b, BitAnd(a, PyNot(reverse))>>
    ELSE IF code = 28 THEN <<f, b, BitAnd(a, PyNot(invisible))>>
    ELSE IF code >= 30 /\ code <= 37 THEN <<code - 30, b, a>>
    ELSE IF code = 39 THEN <<-1, b, a>>
    ELSE IF code >= 40 /\ code <= 47 THEN <<f, code - 40, a>>
    ELSE IF code = 49 THEN <<f, -1, a>>
    ELSE IF code >= 90 /\ code <= 97 THEN <<code - 90 + 8, b, a>>
    ELSE IF code = 99 THEN <<-1, b, a>>
    ELSE IF code >= 100 /\ code <= 107 THEN <<f, code - 100 + 8, a>>
    ELSE IF code = 109 THEN <<f, -1, a>>
    ELSE <<f, b, a>>

\* parse_attr: gives <<fg, bg, attr>>
parse_attr(code, f, b, a) ==
    IF code = 0 THEN <<-1, -1, 0>>
    ELSE IF code = 1 THEN <<f, b, BitOr(a, bold)>>
    ELSE IF code = 4 THEN <<f, b, BitOr(a, underline)>>
    ELSE IF code = 5 THEN <<f, b, BitOr(a, blink)>>
    ELSE IF code = 7 THEN <<f, b, BitOr(a, reverse)>>
    ELSE IF code = 8 THEN <<f, b, BitOr(a, invisible)>>
    ELSE IF code = 22 THEN <<f, b, BitAnd(a, PyNot(bold))>>
    ELSE IF code = 24 THEN <<f, b, BitAnd(a, PyNot(underline))>>
    ELSE IF code = 25 THEN <<f, b, BitAnd(a, PyNot(blink))>>
    ELSE IF code = 27 THEN <<f, b, BitAnd(a, PyNot(reverse))>>
    ELSE IF code = 28 THEN <<f, b, BitAnd(a, PyNot(invisible))>>
    ELSE IF code >= 30 /\ code <= 37 THEN <<code - 30, b, a>>
    ELSE IF code = 39 THEN <<-1, b, a>>
    ELSE IF code >= 40 /\ code <= 47 THEN <<f, code - 40, a>>
    ELSE IF code = 49 THEN <<f, -1, a>>
    ELSE IF code >= 90 /\ code <= 97 THEN <<code - 90 + 8, b, a>>
    ELSE IF code = 99 THEN <<-1, b, a>>
    ELSE IF code >= 100 /\ code <= 107 THEN <<f, code - 100 + 8, a>>
    ELSE IF code = 109 THEN <<f, -1, a>>
    ELSE <<f, b, a>>

parse_indexed_color(code) == code

\* parse_rgb: (r, g, b) = code needs exactly three values
parse_rgb(code, pal) ==
    IF Len(code) # 3
    THEN [id |-> -1, Colors |-> pal.Colors,
          NextColorIndex |-> pal.NextColorIndex, exc |-> "ValueError"]
    ELSE [exc |-> "none"] @@ get_color_id(code[1], code[2], code[3], pal)

\* parse_color: code[0] of an empty list raises IndexError
parse_color(code, pal) ==
    IF code = <<>>
    THEN [id |-> -1, Colors |-> pal.Colors,
          NextColorIndex |-> pal.NextColorIndex, exc |-> "IndexError"]
    ELSE IF code[1] = 5
    THEN [id |-> parse_indexed_color(code[1]), Colors |-> pal.Colors,
          NextColorIndex |-> pal.NextColorIndex, exc |-> "none"]
    ELSE IF code[1] = 2
    THEN parse_rgb(Tail(code), pal)
    ELSE [id |-> -1, Colors |-> pal.Colors,
          NextColorIndex |-> pal.NextColorIndex, exc |-> "none"]

\* parse_ansi_code that gives the extended color to the wrong component
parse_ansi_code_swapped(code, f, b, a, pal) ==
    IF code[1] = 48
    THEN LET c == parse_color(Tail(code), pal)
         IN  [fg |-> IF c.exc = "none" THEN c.id ELSE f, bg |-> b, attr |-> a,
              Colors |-> c.Colors, NextColorIndex |-> c.NextColorIndex,
              exc |-> c.exc]
    ELSE IF code[1] = 38
    THEN LET c == parse_color(Tail(code), pal)
         IN  [fg |-> f, bg |-> IF c.exc = "none" THEN c.id ELSE b, attr |-> a,
              Colors |-> c.Colors, NextColorIndex |-> c.NextColorIndex,
              exc |-> c.exc]
    ELSE LET t == parse_attr(code[1], f, b, a)
         IN  [fg |-> t[1], bg |-> t[2], attr |-> t[3],
              Colors |-> pal.Colors, NextColorIndex |-> pal.NextColorIndex,
              exc |-> "none"]

\* parse_ansi_code on a non-empty list of integers; a raised exception
\* leaves the caller's fg, bg, attr as they were
parse_ansi_code(code, f, b, a, pal) ==
    IF code[1] = 38
    THEN LET c == parse_color(Tail(code), pal)
         IN  [fg |-> IF c.exc = "none" THEN c.id ELSE f, bg |-> b, attr |-> a,
              Colors |-> c.Colors, NextColorIndex |-> c.NextColorIndex,
              exc |-> c.exc]
    ELSE IF code[1] = 48
    THEN LET c == parse_color(Tail(code), pal)
         IN  [fg |-> f, bg |-> IF c.exc = "none" THEN c.id ELSE b, attr |-> a,
              Colors |-> c.Colors, NextColorIndex |-> c.NextColorIndex,
              exc |-> c.exc]
    ELSE LET t == parse_attr(code[1], f, b, a)
         IN  [fg |-> t[1], bg |-> t[2], attr |-> t[3],
              Colors |-> pal.Colors, NextColorIndex |-> pal.NextColorIndex,
              exc |-> "none"]

\* what text_with_fg_bg_attr yields
YieldState(f, b, a) == [kind |-> "state", text |-> <<>>, fg |-> f, bg |-> b, attr |-> a]
YieldText(chunk)    == [kind |-> "text", text |-> chunk, fg |-> 0, bg |-> 0, attr |-> 0]

\* one pass of the loop of text_with_fg_bg_attr, on chunk, from the running
\* state st = [fg, bg, attr, Colors, NextColorIndex]; out is what the pass
\* yields, exc the exception it raises
loop_body(chunk, st) ==
    LET same == [fg |-> st.fg, bg |-> st.bg, attr |-> st.attr,
                 Colors |-> st.Colors, NextColorIndex |-> st.NextColorIndex]
    IN  IF chunk # <<>> /\ chunk[1] = ESC
        THEN IF chunk[Len(chunk)] # "m"
             THEN same @@ [exc |-> "none", out |-> <<>>]
             \* re.match(r'^.\[(.*).$', chunk)
             ELSE IF ~(Len(chunk) >= 3 /\ chunk[2] = "[")
             THEN same @@ [exc |-> "none", out |-> <<>>]
             ELSE LET attr_args == SubSeq(chunk, 3, Len(chunk) - 1)
                      args      == SplitSemicolon(attr_args, <<>>)
                  IN  IF \E k \in 1..Len(args) : ~IsInt(args[k])
                      THEN same @@ [exc |-> "ValueError", out |-> <<>>]
                      ELSE LET code == [k \in 1..Len(args) |-> PyInt(args[k])]
                               r    == parse_ansi_code(code, st.fg, st.bg, st.attr,
                                                       [Colors |-> st.Colors,
                                                        NextColorIndex |-> st.NextColorIndex])
                           IN  r @@ [out |-> IF r.exc = "none"
                                             THEN <<YieldState(r.fg, r.bg, r.attr)>>
                                             ELSE <<>>]
        ELSE same @@ [exc |-> "none", out |-> <<YieldText(chunk)>>]

(***************************************************************************)
(* Inputs: strings put together from pieces.                               *)
(***************************************************************************)
RECURSIVE PieceStrings(_, _)
PieceStrings(pieces, k) ==
    IF k = 0 THEN {<<>>}
    ELSE LET shorter == PieceStrings(pieces, k - 1)
         IN  shorter \cup {s \o p : s \in shorter, p \in pieces}

\* fragments from which escape tokens, ill-formed introducers and text build
Fragments == {<<ESC, "[">>, <<ESC>>, <<"1">>, <<";">>, <<"m">>, <<"WIDE">>}

TokInputs == PieceStrings(Fragments, MaxFragments)

(***************************************************************************)
(* The tokenizer and the measurer, called on one string.                   *)
(***************************************************************************)
InitCommon ==
    /\ pc = "ready"
    /\ tokens = <<>> /\ i = 0
    /\ pos = 0 /\ old_pos = 0 /\ last_color = <<>> /\ chunks = <<>>
    /\ sliced = <<>>
    /\ n = 0
    /\ fg = -1 /\ bg = -1 /\ attr = 0 /\ yielded = <<>> /\ exc = "none"
    /\ Colors = <<>> /\ NextColorIndex = 0
    /\ COLORS = 8 /\ can_change_color = FALSE
    /\ call_args = <<>> /\ returned = 0
    /\ COLOR_PAIRS = (<<10>> :> 0) /\ init_pairs = <<>>

InitTok ==
    /\ ansi_text \in TokInputs
    /\ start = 0 /\ length = 0
    /\ InitCommon

CallSplit ==
    /\ pc = "ready"
    /\ tokens' = split_ansi_from_text(ansi_text)
    /\ pc' = "split"
    /\ UNCHANGED <<ansi_text, n, sliceVars, genVars, palVars, termVars, callVars, pairVars>>

CallCharLen ==
    /\ pc = "ready"
    /\ n' = char_len(ansi_text)
    /\ pc' = "len"
    /\ UNCHANGED <<ansi_text, tokens, sliceVars, genVars, palVars, termVars, callVars, pairVars>>

NextTok == CallSplit \/ CallCharLen

SpecTok == InitTok /\ [][NextTok]_vars

(***************************************************************************)
(* char_slice, one pass of its loop at a time.                             *)
(***************************************************************************)
SGR(args) == <<ESC, "[">> \o args \o <<"m">>

SlicePieces ==
    {<<"a">>, <<"WIDE">>, <<ESC>>, SGR(<<"1">>), SGR(<<"3", "1">>)}

SliceInputs == PieceStrings(SlicePieces, MaxPieces)

InitSlice ==
    /\ ansi_text \in SliceInputs
    /\ start \in 0..MaxStart
    /\ length \in 0..MaxLength
    /\ InitCommon

\* append_chunk that forgets to cut the text token that crosses the end
append_chunk_uncut(chunk, color, o_pos, n_pos, first, len) ==
    IF n_pos <= first THEN <<>>
    ELSE IF o_pos < first /\ n_pos >= first
    THEN <<color, WideStr(WideSlice(chunk, first - o_pos, first - o_pos + len))>>
    ELSE <<color, WideStr(chunk)>>

\* append_chunk that cuts the token that crosses the start one cell late
append_chunk_late(chunk, color, o_pos, n_pos, first, len) ==
    IF n_pos <= first THEN <<>>
    ELSE IF o_pos < first /\ n_pos >= first
    THEN <<color, WideStr(WideSlice(chunk, first - o_pos + 1, first - o_pos + len + 1))>>
    ELSE IF n_pos > len + first
    THEN <<color, WideStr(WideSlice(chunk, 0, first - o_pos + len))>>
    ELSE <<color, WideStr(chunk)>>

\* append_chunk that skips only a token that ends strictly before the start
append_chunk_seek_strict(chunk, color, o_pos, n_pos, first, len) ==
    IF n_pos < first THEN <<>>
    ELSE IF o_pos < first /\ n_pos >= first
    THEN <<color, WideStr(WideSlice(chunk, first - o_pos, first - o_pos + len))>>
    ELSE IF n_pos > len + first
    THEN <<color, WideStr(WideSlice(chunk, 0, first - o_pos + len))>>
    ELSE <<color, WideStr(chunk)>>

\* append_chunk that leaves out last_color for the token that crosses the start
append_chunk_bare(chunk, color, o_pos, n_pos, first, len) ==
    IF n_pos <= first THEN <<>>
    ELSE IF o_pos < first /\ n_pos >= first
    THEN <<WideStr(WideSlice(chunk, first - o_pos, first - o_pos + len))>>
    ELSE IF n_pos > len + first
    THEN <<color, WideStr(WideSlice(chunk, 0, first - o_pos + len))>>
    ELSE <<color, WideStr(chunk)>>

\* the if/elif chain of char_slice on the text token chunk (a WideString)
\* lying on the cells o_pos .. n_pos: what it appends to chunks
append_chunk(chunk, color, o_pos, n_pos, first, len) ==
    IF n_pos <= first THEN <<>>
    ELSE IF o_pos < first /\ n_pos >= first
    THEN <<color, WideStr(WideSlice(chunk, first - o_pos, first - o_pos + len))>>
    ELSE IF n_pos > len + first
    THEN <<color, WideStr(WideSlice(chunk, 0, first - o_pos + len))>>
    ELSE <<color, WideStr(chunk)>>

CallCharSlice ==
    /\ pc = "ready"
    /\ tokens' = split_ansi_from_text(ansi_text)
    /\ chunks' = <<>>
    /\ last_color' = <<>>
    /\ pos' = 0 /\ old_pos' = 0
    /\ i' = 0
    /\ pc' = "slice"
    /\ UNCHANGED <<ansi_text, start, length, sliced, n, genVars, palVars, termVars, callVars, pairVars>>

\* the body of the for loop on the element i of tokens
SliceStep ==
    /\ pc = "slice"
    /\ i < Len(tokens)
    /\ LET chunk == tokens[i + 1] IN
         IF i % 2 = 1
         THEN /\ last_color' = chunk
              /\ pc' = "slice"
              /\ UNCHANGED <<pos, old_pos, chunks>>
         ELSE LET wide    == WideString(chunk)
                  new_pos == pos + Len(wide)
              IN  /\ old_pos' = pos
                  /\ pos' = new_pos
                  /\ chunks' = chunks \o
                        append_chunk(wide, last_color, pos, new_pos, start, length)
                  /\ pc' = IF new_pos - start >= length THEN "join" ELSE "slice"
                  /\ UNCHANGED last_color
    /\ i' = i + 1
    /\ UNCHANGED <<ansi_text, start, length, tokens, sliced, n, genVars, palVars, termVars, callVars, pairVars>>

\* return ''.join(chunks), after the break or at the end of tokens
SliceReturn ==
    /\ \/ pc = "join"
       \/ pc = "slice" /\ i = Len(tokens)
    /\ sliced' = join(chunks)
    /\ pc' = "done"
    /\ UNCHANGED <<ansi_text, start, length, tokens, i, pos, old_pos, last_color,
                   chunks, n, genVars, palVars, termVars, callVars, pairVars>>

NextSlice == CallCharSlice \/ SliceStep \/ SliceReturn

SpecSlice == InitSlice /\ [][NextSlice]_vars

(***************************************************************************)
(* text_with_fg_bg_attr, one pass of its loop at a time.                   *)
(***************************************************************************)
SGRPieces ==
    {<<"a">>,
     SGR(<<>>), SGR(<<"0">>),
     SGR(<<"1">>), SGR(<<"4">>), SGR(<<"2", "2">>),
     SGR(<<"1", ";", "3", "1">>),
     SGR(<<"3", "8", ";", "5", ";", "1", "9", "6">>),
     SGR(<<"3", "8", ";", "2", ";", "2", "5", "5", ";", "0", ";", "0">>),
     SGR(<<"4", "8", ";", "2", ";", "0", ";", "1", "2", "8", ";", "2", "5", "5">>)}

SGRInputs == PieceStrings(SGRPieces, MaxTokens)

\* terminals: one with a single free palette slot and one that cannot
\* redefine colors
Terminals ==
    {[COLORS |-> 33, can_change_color |-> TRUE],
     [COLORS |-> 256, can_change_color |-> FALSE]}

Init ==
    /\ ansi_text \in SGRInputs
    /\ start = 0 /\ length = 0
    /\ pc = "ready"
    /\ tokens = <<>> /\ i = 0
    /\ pos = 0 /\ old_pos = 0 /\ last_color = <<>> /\ chunks = <<>>
    /\ sliced = <<>>
    /\ n = 0
    /\ fg = -1 /\ bg = -1 /\ attr = 0 /\ yielded = <<>> /\ exc = "none"
    /\ Colors = <<>> /\ NextColorIndex = 0
    /\ \E term \in Terminals :
          /\ COLORS = term.COLORS
          /\ can_change_color = term.can_change_color
    /\ call_args = <<>> /\ returned = 0
    /\ COLOR_PAIRS = (<<10>> :> 0) /\ init_pairs = <<>>

\* the call: fg, bg, attr = -1, -1, 0 and the split of the argument
CallTextWithFgBgAttr ==
    /\ pc = "ready"
    /\ tokens' = split_ansi_from_text(ansi_text)
    /\ i' = 0
    /\ fg' = -1 /\ bg' = -1 /\ attr' = 0
    /\ yielded' = <<>>
    /\ exc' = "none"
    /\ pc' = "gen"
    /\ UNCHANGED <<ansi_text, start, length, pos, old_pos, last_color, chunks,
                   sliced, n, palVars, termVars, callVars, pairVars>>

\* the body of the for loop on the element i of tokens
GenStep ==
    /\ pc = "gen"
    /\ i < Len(tokens)
    /\ LET r == loop_body(tokens[i + 1],
                          [fg |-> fg, bg |-> bg, attr |-> attr,
                           Colors |-> Colors, NextColorIndex |-> NextColorIndex])
       IN  /\ fg' = r.fg /\ bg' = r.bg /\ attr' = r.attr
           /\ Colors' = r.Colors /\ NextColorIndex' = r.NextColorIndex
           /\ exc' = r.exc
           /\ yielded' = yielded \o r.out
           /\ pc' = IF r.exc = "none" THEN "gen" ELSE "raised"
    /\ i' = i + 1
    /\ UNCHANGED <<ansi_text, start, length, tokens, pos, old_pos, last_color,
                   chunks, sliced, n, termVars, callVars, pairVars>>

\* the loop is over: the generator is exhausted
GenStop ==
    /\ pc = "gen"
    /\ i = Len(tokens)
    /\ pc' = "stop"
    /\ UNCHANGED <<ansi_text, start, length, tokens, i, pos, old_pos, last_color,
                   chunks, sliced, n, genVars, palVars, termVars, callVars, pairVars>>

Next == CallTextWithFgBgAttr \/ GenStep \/ GenStop

Spec == Init /\ [][Next]_vars

\* text_with_fg_bg_attr run to its end on the list toks from the running
\* state st: everything it yields, and the exception that ended it
RECURSIVE run_loop(_, _, _)
run_loop(toks, st, outs) ==
    IF toks = <<>> THEN [yielded |-> outs, exc |-> "none"]
    ELSE LET r == loop_body(Head(toks), st)
         IN  IF r.exc # "none" THEN [yielded |-> outs, exc |-> r.exc]
             ELSE run_loop(Tail(toks), r, outs \o r.out)

text_with_fg_bg_attr(s) ==
    run_loop(split_ansi_from_text(s),
             [fg |-> -1, bg |-> -1, attr |-> 0,
              Colors |-> Colors, NextColorIndex |-> NextColorIndex],
             <<>>)

(***************************************************************************)
(* C1: concatenating all the elements split_ansi_from_text returns, text   *)
(* and escape tokens alike and in order, gives back the input string.      *)
(***************************************************************************)
C1_SplitRoundTrip ==
    pc = "split" => join(tokens) = ansi_text

\* an input whose text begins with an introducer that never reaches its
\* letter and is followed by an escape token
C1_Witness ==
    /\ pc = "split"
    /\ Len(tokens) = 3
    /\ tokens[1] = <<ESC, "[", ";">>
    /\ tokens[2] = <<ESC, "[", "1", "m">>
    /\ tokens[3] = <<>>

(***************************************************************************)
(* C5: char_len(s) is the sum of the display widths (1 per narrow glyph,   *)
(* 2 per wide glyph) of the text tokens of split_ansi_from_text(s); the    *)
(* escape tokens count for nothing and char_len("") = 0.                   *)
(***************************************************************************)
RECURSIVE DisplayWidth(_)
DisplayWidth(text) ==
    IF text = <<>> THEN 0
    ELSE (IF Head(text) \in WideGlyphs THEN 2 ELSE 1) + DisplayWidth(Tail(text))

\* the text tokens are the elements at the even indices 0, 2, 4, ...
RECURSIVE TextTokensWidth(_)
TextTokensWidth(toks) ==
    IF toks = <<>> THEN 0
    ELSE DisplayWidth(Head(toks)) +
         (IF Len(toks) >= 2 THEN TextTokensWidth(Tail(Tail(toks))) ELSE 0)

C5_CharLenIsTextWidth ==
    pc = "len" =>
        /\ n = TextTokensWidth(split_ansi_from_text(ansi_text))
        /\ (ansi_text = <<>> => n = 0)

\* a wide glyph, a narrow one and an escape token are measured together
C5_Witness ==
    /\ pc = "len"
    /\ ansi_text = <<"WIDE", ESC, "[", "1", "m", "1">>
    /\ n = 3

(***************************************************************************)
(* C2: for a string built from literal text and SGR escape sequences and   *)
(* for length > 0, the k-th visible cell of char_slice(s, start, length),  *)
(* resolved on its own by text_with_fg_bg_attr from (-1, -1, 0), has the   *)
(* (fg, bg, attr) that the visible cell start + k has when the whole of s  *)
(* is resolved.                                                            *)
(***************************************************************************)
\* the (fg, bg, attr) of each visible cell, from what the resolver yields
RECURSIVE CellStatesOf(_, _)
CellStatesOf(yields, cur) ==
    IF yields = <<>> THEN <<>>
    ELSE LET y == Head(yields)
         IN  IF y.kind = "state"
             THEN CellStatesOf(Tail(yields), <<y.fg, y.bg, y.attr>>)
             ELSE [k \in 1..Len(WideString(y.text)) |-> cur]
                  \o CellStatesOf(Tail(yields), cur)

CellStates(s) == CellStatesOf(text_with_fg_bg_attr(s).yielded, <<-1, -1, 0>>)

\* every text token is free of the introducer and every escape token is an
\* SGR sequence with numeric parameters
BuiltFromTextAndSGR(s) ==
    LET toks == split_ansi_from_text(s)
    IN  \A k \in 1..Len(toks) :
           IF k % 2 = 1
           THEN \A j \in 1..Len(toks[k]) : toks[k][j] # ESC
           ELSE /\ toks[k][Len(toks[k])] = "m"
                /\ Len(toks[k]) > 3

C2_SliceRendersLikeOriginal ==
    (pc = "done" /\ length > 0 /\ BuiltFromTextAndSGR(ansi_text)) =>
        LET whole == CellStates(ansi_text)
            part  == CellStates(sliced)
        IN  \A k \in 1..Len(part) :
               /\ start + k <= Len(whole)
               /\ part[k] = whole[start + k]

(***************************************************************************)
(* C3: for 0 <= a <= b <= char_len(s),                                     *)
(* char_len(char_slice(s, a, b - a)) = b - a.                              *)
(***************************************************************************)
C3_SliceLength ==
    (pc = "done" /\ start + length <= char_len(ansi_text)) =>
        char_len(sliced) = length

\* a slice that begins inside one text token and ends inside a later one,
\* with an escape token between them
C3_Witness ==
    /\ pc = "done"
    /\ ansi_text = <<"a", "a">> \o SGR(<<"1">>) \o <<"WIDE">>
    /\ start = 1 /\ length = 2
    /\ sliced = <<"a">> \o SGR(<<"1">>) \o <<" ">>

(***************************************************************************)
(* C4: with its escape tokens removed, char_slice(s, start, length) is     *)
(* the visible cells [start, start + length) of s with its escape tokens   *)
(* removed.                                                                *)
(***************************************************************************)
C4_SliceVisibleCells ==
    pc = "done" =>
        WideString(re_sub(sliced, 1))
            = WideSlice(WideString(re_sub(ansi_text, 1)), start, start + length)

\* a slice that begins in the middle of a wide glyph and ends in the
\* middle of another one, over an escape token
C4_Witness ==
    /\ pc = "done"
    /\ start = 1 /\ length = 2
    /\ Len(tokens) = 3
    /\ char_len(ansi_text) = 4
    /\ chunks = << <<>>, <<" ">>, SGR(<<"3", "1">>), <<" ">> >>

(***************************************************************************)
(* The SGR token the resolver is about to take, and its parameters.        *)
(***************************************************************************)
\* the loop of text_with_fg_bg_attr is at an escape token that ends in m
AtSGRToken ==
    /\ pc = "gen"
    /\ i < Len(tokens)
    /\ i % 2 = 1
    /\ tokens[i + 1][Len(tokens[i + 1])] = "m"

\* the text between the introducer and the m
ParameterText == SubSeq(tokens[i + 1], 3, Len(tokens[i + 1]) - 1)

\* the parameters as numbers, <<>> when one of them is not a number
Parameters ==
    LET args == SplitSemicolon(ParameterText, <<>>)
    IN  IF \A k \in 1..Len(args) : IsInt(args[k])
        THEN [k \in 1..Len(args) |-> PyInt(args[k])]
        ELSE <<>>

(***************************************************************************)
(* C6: for N in 0..255 and any prior state, the SGR sequence 38;5;N gives  *)
(* fg = N with bg and attr unchanged, and 48;5;N gives bg = N with fg and  *)
(* attr unchanged.                                                         *)
(***************************************************************************)
C6_IndexedColor ==
    [][(AtSGRToken /\ Len(Parameters) = 3 /\ Parameters[2] = 5
            /\ Parameters[1] \in {38, 48} /\ Parameters[3] \in 0..255) =>
          IF Parameters[1] = 38
          THEN fg' = Parameters[3] /\ bg' = bg /\ attr' = attr
          ELSE bg' = Parameters[3] /\ fg' = fg /\ attr' = attr]_vars

(***************************************************************************)
(* C7: a disable code (22, 24, 25, 27, 28) clears the bit of its own       *)
(* attribute (bold, underline, blink, reverse, invisible) and leaves every *)
(* other attribute bit, fg and bg as they were.                            *)
(***************************************************************************)
DisabledBit(code) ==
    CASE code = 22 -> bold
      [] code = 24 -> underline
      [] code = 25 -> blink
      [] code = 27 -> reverse
      [] code = 28 -> invisible

C7_DisableClearsOneBit ==
    [][(AtSGRToken /\ Len(Parameters) = 1
            /\ Parameters[1] \in {22, 24, 25, 27, 28}) =>
          /\ attr' = attr - BitAnd(attr, DisabledBit(Parameters[1]))
          /\ fg' = fg /\ bg' = bg]_vars

(***************************************************************************)
(* C8: from any prior state, an SGR token with an empty parameter list     *)
(* (ESC[m) or with 0 as its first parameter resolves to (-1, -1, 0).       *)
(***************************************************************************)
C8_Reset ==
    [][(AtSGRToken /\ (\/ ParameterText = <<>>
                        \/ (Parameters # <<>> /\ Parameters[1] = 0))) =>
          /\ fg' = -1 /\ bg' = -1 /\ attr' = 0
          /\ yielded' = Append(yielded, YieldState(-1, -1, 0))]_vars

(***************************************************************************)
(* C9: an SGR token with several parameters has each of them folded, left  *)
(* to right, into the running (fg, bg, attr); 38 and 48 take their own     *)
(* sub-parameters with them.                                               *)
(***************************************************************************)
RECURSIVE FoldParameters(_, _)
FoldParameters(code, st) ==
    IF code = <<>> THEN st
    ELSE IF code[1] \in {38, 48} /\ Len(code) >= 3 /\ code[2] = 5
    THEN FoldParameters(SubSeq(code, 4, Len(code)),
                        IF code[1] = 38 THEN <<code[3], st[2], st[3]>>
                                        ELSE <<st[1], code[3], st[3]>>)
    ELSE IF code[1] \in {38, 48} /\ Len(code) >= 5 /\ code[2] = 2
    THEN LET id == get_color_id(code[3], code[4], code[5],
                                [Colors |-> Colors,
                                 NextColorIndex |-> NextColorIndex]).id
         IN  FoldParameters(SubSeq(code, 6, Len(code)),
                            IF code[1] = 38 THEN <<id, st[2], st[3]>>
                                            ELSE <<st[1], id, st[3]>>)
    ELSE FoldParameters(Tail(code), parse_attr(code[1], st[1], st[2], st[3]))

C9_EveryParameterFolded ==
    [][(AtSGRToken /\ Len(Parameters) > 1) =>
          <<fg', bg', attr'>> = FoldParameters(Parameters, <<fg, bg, attr>>)]_vars

(***************************************************************************)
(* C10: an SGR token 38;2;R;G;B sets fg to the id get_color_id(R, G, B)    *)
(* returns (48;2;R;G;B sets bg) and leaves the other two components        *)
(* unchanged; when get_color_id returns -1 the component becomes -1 and    *)
(* the resolution goes on with the next token.                             *)
(***************************************************************************)
C10_TrueColor ==
    [][(AtSGRToken /\ Len(Parameters) = 5 /\ Parameters[2] = 2
            /\ Parameters[1] \in {38, 48}) =>
          LET got == get_color_id(Parameters[3], Parameters[4], Parameters[5],
                                  [Colors |-> Colors,
                                   NextColorIndex |-> NextColorIndex])
          IN  /\ IF Parameters[1] = 38
                 THEN fg' = got.id /\ bg' = bg /\ attr' = attr
                 ELSE bg' = got.id /\ fg' = fg /\ attr' = attr
              /\ Colors' = got.Colors
              /\ NextColorIndex' = got.NextColorIndex
              /\ exc' = "none" /\ pc' = "gen"
              /\ yielded' = Append(yielded, YieldState(fg', bg', attr'))]_vars

\* bold is on, the foreground got the one free palette slot, the background
\* got -1 because no slot was left, and the resolver went on to the end
C10_Witness ==
    /\ pc = "stop"
    /\ COLORS = 33 /\ can_change_color
    /\ Len(tokens) = 7
    /\ tokens[2] = SGR(<<"1">>)
    /\ tokens[4] = SGR(<<"3", "8", ";", "2", ";", "2", "5", "5", ";", "0", ";", "0">>)
    /\ tokens[6] = SGR(<<"4", "8", ";", "2", ";", "0", ";", "1", "2", "8", ";", "2", "5", "5">>)
    /\ fg = PredefinedColorCount /\ bg = -1 /\ attr = bold
    /\ NextColorIndex = 1
    /\ yielded[6] = YieldState(PredefinedColorCount, -1, bold)

(***************************************************************************)
(* C11: text_with_fg_bg_attr runs to completion on every string: no escape *)
(* token the tokenizer accepts (ESC[m, ESC[38m, a truncated truecolor      *)
(* token, ...) ends the call with an exception.                            *)
(***************************************************************************)
C11_NeverRaises ==
    /\ pc # "raised"
    /\ exc = "none"

(***************************************************************************)
(* The resolver on strings that mix text, SGR tokens, escape tokens with   *)
(* another terminator, SGR codes parse_attr has no branch for, and an      *)
(* introducer that starts no escape token.                                 *)
(***************************************************************************)
MixedPieces ==
    {<<"a">>, <<ESC>>,
     SGR(<<"1">>), SGR(<<"3", "1">>),
     SGR(<<"3">>), SGR(<<"9">>),
     <<ESC, "[", "H">>, <<ESC, "[", "1", ";", "1", "H">>}

MixedInputs == PieceStrings(MixedPieces, MaxTokens)

InitMixed ==
    /\ ansi_text \in MixedInputs
    /\ start = 0 /\ length = 0
    /\ InitCommon

SpecMixed == InitMixed /\ [][Next]_vars

(***************************************************************************)
(* C12: a span that begins with ESC and is no escape token is literal text *)
(* for the resolver too: when text_with_fg_bg_attr(s) is exhausted, the    *)
(* text chunks it yielded, concatenated, are s without its escape tokens,  *)
(* the text char_len measures.                                             *)
(***************************************************************************)
RECURSIVE YieldedText(_)
YieldedText(yields) ==
    IF yields = <<>> THEN <<>>
    ELSE (IF Head(yields).kind = "text" THEN Head(yields).text ELSE <<>>)
            \o YieldedText(Tail(yields))

C12_MalformedIsLiteral ==
    pc = "stop" => YieldedText(yielded) = re_sub(ansi_text, 1)

(***************************************************************************)
(* C13: char_slice(s, start, 0) is the empty string for every s and every  *)
(* start: with length 0 neither text nor an escape token is emitted.       *)
(***************************************************************************)
C13_ZeroLengthEmpty ==
    (pc = "done" /\ length = 0) => sliced = <<>>

(***************************************************************************)
(* C14: if start >= char_len(s), char_slice(s, start, length) is the empty *)
(* string; if start < char_len(s) < start + length, the loop is never left *)
(* by the break, it ends with the last token, and the slice is the visible *)
(* cells [start, char_len(s)) of s.                                        *)
(***************************************************************************)
C14_SliceAtTheEnd ==
    /\ (pc = "done" /\ start >= char_len(ansi_text)) => sliced = <<>>
    /\ (start < char_len(ansi_text) /\ char_len(ansi_text) < start + length) =>
          /\ pc # "join"
          /\ pc = "done" =>
                /\ i = Len(tokens)
                /\ WideString(re_sub(sliced, 1))
                      = WideSlice(WideString(re_sub(ansi_text, 1)),
                                  start, char_len(ansi_text))

\* a slice asked from the middle of the last glyph to one cell past the end
C14_Witness ==
    /\ pc = "done"
    /\ ansi_text = <<"a">> \o SGR(<<"1">>) \o <<"WIDE">>
    /\ start = 2 /\ length = 2
    /\ char_len(ansi_text) = 3
    /\ i = Len(tokens)
    /\ sliced = SGR(<<"1">>) \o <<" ">>

(***************************************************************************)
(* get_color_id called again and again on one terminal.                    *)
(***************************************************************************)
RGBValues == {0, 255}

PaletteTerminals ==
    {[COLORS |-> 8,   can_change_color |-> TRUE],
     [COLORS |-> 33,  can_change_color |-> TRUE],
     [COLORS |-> 34,  can_change_color |-> TRUE],
     [COLORS |-> 256, can_change_color |-> TRUE],
     [COLORS |-> 256, can_change_color |-> FALSE]}

InitPalette ==
    /\ ansi_text = <<>>
    /\ start = 0 /\ length = 0
    /\ pc = "ready"
    /\ tokens = <<>> /\ i = 0
    /\ pos = 0 /\ old_pos = 0 /\ last_color = <<>> /\ chunks = <<>>
    /\ sliced = <<>>
    /\ n = 0
    /\ fg = -1 /\ bg = -1 /\ attr = 0 /\ yielded = <<>> /\ exc = "none"
    /\ Colors = <<>> /\ NextColorIndex = 0
    /\ \E term \in PaletteTerminals :
          /\ COLORS = term.COLORS
          /\ can_change_color = term.can_change_color
    /\ call_args = <<>> /\ returned = 0
    /\ COLOR_PAIRS = (<<10>> :> 0) /\ init_pairs = <<>>

\* one call get_color_id(r, g, b)
CallGetColorId ==
    /\ pc \in {"ready", "called"}
    /\ NextColorIndex < MaxRegistered
    /\ \E r \in RGBValues, g \in RGBValues, b \in RGBValues :
          LET got == get_color_id(r, g, b, [Colors |-> Colors,
                                            NextColorIndex |-> NextColorIndex])
          IN  /\ call_args' = <<r, g, b>>
              /\ returned' = got.id
              /\ Colors' = got.Colors
              /\ NextColorIndex' = got.NextColorIndex
    /\ pc' = "called"
    /\ UNCHANGED <<ansi_text, tokens, n, sliceVars, genVars, termVars, pairVars>>

NextPalette == CallGetColorId

SpecPalette == InitPalette /\ [][NextPalette]_vars

(***************************************************************************)
(* C15: a call of get_color_id with a color that is not in the cache       *)
(* returns -1 only if the terminal cannot change colors or every id of     *)
(* PredefinedColorCount .. COLORS - 1 has been allocated.                  *)
(***************************************************************************)
AllocatedIds == {Colors[key] : key \in DOMAIN Colors}

FreeSlots == (PredefinedColorCount .. (COLORS - 1)) \ AllocatedIds

C15_MinusOneOnlyWhenFull ==
    (pc = "called" /\ returned = -1) => (~can_change_color \/ FreeSlots = {})

(***************************************************************************)
(* C16: text_with_fg_bg_attr(s) starts at (-1, -1, 0), yields the text     *)
(* tokens of s in their order, and yields after each SGR token the state   *)
(* all SGR tokens up to it fold to, left to right: while it runs it has    *)
(* yielded that for the tokens it has passed, and when it ends it has      *)
(* yielded that for all of s.                                              *)
(***************************************************************************)
\* the state one SGR token leaves, st when the token is a no-op
ResolvedToken(tok, st) ==
    LET r == loop_body(tok, st)
    IN  IF r.exc = "none" THEN r ELSE st

\* what the claim has the generator yield for the tokens k .. Len(toks)
RECURSIVE ExpectedYields(_, _, _)
ExpectedYields(toks, k, st) ==
    IF k > Len(toks) THEN <<>>
    ELSE IF k % 2 = 1
    THEN <<YieldText(toks[k])>> \o ExpectedYields(toks, k + 1, st)
    ELSE IF toks[k][Len(toks[k])] # "m"
    THEN ExpectedYields(toks, k + 1, st)
    ELSE LET r == ResolvedToken(toks[k], st)
         IN  <<YieldState(r.fg, r.bg, r.attr)>> \o ExpectedYields(toks, k + 1, r)

InitialState ==
    [fg |-> -1, bg |-> -1, attr |-> 0, Colors |-> <<>>, NextColorIndex |-> 0]

C16_YieldsFollowTokens ==
    /\ pc = "gen" => yielded = ExpectedYields(SubSeq(tokens, 1, i), 1, InitialState)
    /\ pc \in {"stop", "raised"} => yielded = ExpectedYields(tokens, 1, InitialState)

(***************************************************************************)
(* C17: an escape token whose terminator is not m, and an SGR token whose  *)
(* code is not one of 0, 1, 4, 5, 7, 8, 22, 24, 25, 27, 28, 30..37, 39,    *)
(* 40..47, 49, 90..97, 99, 100..107, 109, 38, 48, leave (fg, bg, attr)     *)
(* unchanged and the resolver goes on.                                     *)
(***************************************************************************)
ModelledCodes ==
    {0, 1, 4, 5, 7, 8, 22, 24, 25, 27, 28, 39, 49, 99, 109, 38, 48}
        \cup (30..37) \cup (40..47) \cup (90..97) \cup (100..107)

\* the loop of text_with_fg_bg_attr is at an escape token
AtEscapeToken ==
    /\ pc = "gen"
    /\ i < Len(tokens)
    /\ i % 2 = 1

C17_OtherTokensLeaveState ==
    [][(/\ AtEscapeToken
        /\ \/ tokens[i + 1][Len(tokens[i + 1])] # "m"
           \/ /\ AtSGRToken
              /\ Len(Parameters) = 1
              /\ Parameters[1] \notin ModelledCodes) =>
          /\ fg' = fg /\ bg' = bg /\ attr' = attr
          /\ exc' = "none" /\ pc' = "gen"]_vars

\* bold was set, then a cursor-position token and an italics token went by
C17_Witness ==
    /\ pc = "stop"
    /\ ansi_text = SGR(<<"1">>) \o <<ESC, "[", "H">> \o SGR(<<"3">>)
    /\ fg = -1 /\ bg = -1 /\ attr = bold
    /\ Len(yielded) = 6
    /\ yielded[5] = YieldState(-1, -1, bold)

(***************************************************************************)
(* The slicer on strings whose escape tokens end in m or in another        *)
(* letter.                                                                 *)
(***************************************************************************)
TerminatorPieces ==
    {<<"a">>, <<"WIDE">>, SGR(<<"1">>), <<ESC, "[", "H">>}

TerminatorInputs == PieceStrings(TerminatorPieces, MaxPieces)

InitSliceAny ==
    /\ ansi_text \in TerminatorInputs
    /\ start \in 0..MaxStart
    /\ length \in 0..MaxLength
    /\ InitCommon

SpecSliceAny == InitSliceAny /\ [][NextSlice]_vars

(***************************************************************************)
(* C18: char_slice(s, start, length) is made, in the order of s, of one    *)
(* contribution per text token whose end lies after start, up to and       *)
(* including the first text token at which position - start >= length:     *)
(* the escape token just before that text token (nothing before the first  *)
(* one), whatever its terminator, then the cells of the text token inside  *)
(* [start, start + length). So a text token that ends at or before start   *)
(* gives nothing and an escape token is emitted at most once.              *)
(***************************************************************************)
\* the display cells before the text token toks[k]
RECURSIVE CellsBefore(_, _)
CellsBefore(toks, k) ==
    IF k <= 1 THEN 0
    ELSE CellsBefore(toks, k - 2) + DisplayWidth(toks[k - 2])

CellsAfter(toks, k) == CellsBefore(toks, k) + DisplayWidth(toks[k])

\* the text tokens: the odd positions of the list
TextPositions(toks) == {k \in 1..Len(toks) : k % 2 = 1}

\* the text token toks[k] contributes to the slice
Contributes(toks, k) ==
    /\ CellsAfter(toks, k) > start
    /\ \A j \in TextPositions(toks) :
          j < k => CellsAfter(toks, j) - start < length

\* the escape token before toks[k], then the cells of toks[k] in the range
Contribution(toks, k) ==
    LET before == CellsBefore(toks, k)
        from   == IF start > before THEN start - before ELSE 0
    IN  << IF k > 1 THEN toks[k - 1] ELSE <<>>,
           WideStr(WideSlice(WideString(toks[k]), from, start + length - before)) >>

RECURSIVE ExpectedChunks(_, _)
ExpectedChunks(toks, k) ==
    IF k > Len(toks) THEN <<>>
    ELSE (IF Contributes(toks, k) THEN Contribution(toks, k) ELSE <<>>)
            \o ExpectedChunks(toks, k + 2)

C18_SliceContributions ==
    pc = "done" =>
        /\ chunks = ExpectedChunks(split_ansi_from_text(ansi_text), 1)
        /\ sliced = join(chunks)

\* the slice takes a and, after the cursor token, the left half of the glyph
C18_Witness ==
    /\ pc = "done"
    /\ ansi_text = <<"a", ESC, "[", "H", "WIDE">>
    /\ start = 0 /\ length = 2
    /\ chunks = << <<>>, <<"a">>, <<ESC, "[", "H">>, <<" ">> >>
    /\ sliced = <<"a", ESC, "[", "H", " ">>

(***************************************************************************)
(* C19: over any sequence of get_color_id calls the cache only grows and   *)
(* is injective: a color that has an id keeps it and gets it back on every *)
(* later call, also when the palette is exhausted; two colors never share  *)
(* an id; the predefined colors keep their ids and every other id lies in  *)
(* PredefinedColorCount .. COLORS - 1, as many of them as NextColorIndex.  *)
(***************************************************************************)
PredefinedTable ==
    PredefinedColors(<<black, blue, cyan, green, magenta, red, white, yellow>>)

\* the key get_color_id looks up for the arguments args
ScaledKey(args) ==
    <<ScaleComponent(args[1]), ScaleComponent(args[2]), ScaleComponent(args[3])>>

DynamicKeys == DOMAIN Colors \ DOMAIN PredefinedTable

PaletteInjective ==
    \A k1 \in DOMAIN Colors, k2 \in DOMAIN Colors :
        Colors[k1] = Colors[k2] => k1 = k2

PaletteIdsInRange ==
    /\ \A key \in DOMAIN Colors \cap DOMAIN PredefinedTable :
          Colors[key] = PredefinedTable[key]
    /\ \A key \in DynamicKeys :
          Colors[key] \in PredefinedColorCount .. (COLORS - 1)
    /\ Cardinality(DynamicKeys) = NextColorIndex

PaletteKeeps ==
    /\ \A key \in DOMAIN Colors :
          key \in DOMAIN Colors' /\ Colors'[key] = Colors[key]
    /\ (pc' = "called" /\ ScaledKey(call_args') \in DOMAIN Colors) =>
          returned' = Colors[ScaledKey(call_args')]
    /\ (pc' = "called" /\ returned' # -1) =>
          /\ ScaledKey(call_args') \in DOMAIN Colors'
          /\ returned' = Colors'[ScaledKey(call_args')]

C19_PaletteGrowOnlyInjective ==
    /\ [](PaletteInjective /\ PaletteIdsInRange)
    /\ [][PaletteKeeps]_vars

\* both free slots of a 34-color terminal are taken, and the color that got
\* the first of them is asked for again
C19_Witness ==
    /\ pc = "called"
    /\ COLORS = 34 /\ can_change_color
    /\ NextColorIndex = 2
    /\ AllocatedIds = (0..7) \cup {24, 25}
    /\ call_args = <<255, 0, 0>>
    /\ Colors[ScaledKey(call_args)] = PredefinedColorCount
    /\ returned = PredefinedColorCount

(***************************************************************************)
(* get_color called again and again. COLOR_PAIRS starts as {10: 0}; its    *)
(* keys are written as tuples, the integer key 10 as <<10>>, which no      *)
(* (fg, bg) equals. Whether curses.init_pair raises curses.error is up to  *)
(* the terminal.                                                           *)
(***************************************************************************)
DEFAULT_FOREGROUND == white
DEFAULT_BACKGROUND == black

PairColors == {-1, 1}

\* get_color that builds the key after the fallback has replaced the -1
get_color_fallback_key(f, b, pairs, inited, first_fails, second_fails) ==
    LET size == Cardinality(DOMAIN pairs)
        f1   == IF first_fails /\ f = -1 THEN DEFAULT_FOREGROUND ELSE f
        b1   == IF first_fails /\ b = -1 THEN DEFAULT_BACKGROUND ELSE b
        key  == <<f1, b1>>
    IN  IF key \notin DOMAIN pairs
        THEN [handle      |-> size,
              COLOR_PAIRS |-> (key :> size) @@ pairs,
              init_pairs  |-> IF first_fails /\ second_fails THEN inited
                              ELSE (size :> <<f1, b1>>) @@ inited]
        ELSE [handle |-> pairs[key], COLOR_PAIRS |-> pairs, init_pairs |-> inited]

\* get_color(fg, bg) on the table pairs, where the first and the second
\* call of curses.init_pair raise curses.error as first_fails and
\* second_fails say; gives the handle returned, COLOR_PAIRS and the pairs
\* curses holds afterwards
get_color(f, b, pairs, inited, first_fails, second_fails) ==
    LET key  == <<f, b>>
        size == Cardinality(DOMAIN pairs)
        f1   == IF f = -1 THEN DEFAULT_FOREGROUND ELSE f
        b1   == IF b = -1 THEN DEFAULT_BACKGROUND ELSE b
    IN  IF key \notin DOMAIN pairs
        THEN [handle      |-> size,
              COLOR_PAIRS |-> (key :> size) @@ pairs,
              init_pairs  |-> IF ~first_fails THEN (size :> <<f, b>>) @@ inited
                              ELSE IF ~second_fails
                              THEN (size :> <<f1, b1>>) @@ inited
                              ELSE inited]
        ELSE [handle |-> pairs[key], COLOR_PAIRS |-> pairs, init_pairs |-> inited]

InitPairs ==
    /\ ansi_text = <<>>
    /\ start = 0 /\ length = 0
    /\ InitCommon

\* one call get_color(fg, bg)
CallGetColor ==
    /\ pc \in {"ready", "paired"}
    /\ Cardinality(DOMAIN COLOR_PAIRS) <= MaxPairs
    /\ \E f \in PairColors, b \in PairColors,
          first_fails \in BOOLEAN, second_fails \in BOOLEAN :
          LET got == get_color(f, b, COLOR_PAIRS, init_pairs,
                               first_fails, second_fails)
          IN  /\ call_args' = <<f, b>>
              /\ returned' = got.handle
              /\ COLOR_PAIRS' = got.COLOR_PAIRS
              /\ init_pairs' = got.init_pairs
    /\ pc' = "paired"
    /\ UNCHANGED <<ansi_text, tokens, n, sliceVars, genVars, palVars, termVars>>

NextPairs == CallGetColor

SpecPairs == InitPairs /\ [][NextPairs]_vars

(***************************************************************************)
(* C20: over any sequence of get_color calls, whether init_pair fails or   *)
(* not: a pair (fg, bg) that has a handle keeps it and gets it back on     *)
(* every later call, two pairs never share a handle, every handle handed   *)
(* out is at least 1, and the entry is under the (fg, bg) the caller       *)
(* passed, also when the fallback replaced a -1.                           *)
(***************************************************************************)
PairsInjective ==
    \A k1 \in DOMAIN COLOR_PAIRS, k2 \in DOMAIN COLOR_PAIRS :
        COLOR_PAIRS[k1] = COLOR_PAIRS[k2] => k1 = k2

HandlesFromOne ==
    /\ \A key \in DOMAIN COLOR_PAIRS \ {<<10>>} : COLOR_PAIRS[key] >= 1
    /\ pc = "paired" =>
          /\ returned >= 1
          /\ call_args \in DOMAIN COLOR_PAIRS
          /\ COLOR_PAIRS[call_args] = returned

PairsKeep ==
    /\ \A key \in DOMAIN COLOR_PAIRS :
          key \in DOMAIN COLOR_PAIRS' /\ COLOR_PAIRS'[key] = COLOR_PAIRS[key]
    /\ (pc' = "paired" /\ call_args' \in DOMAIN COLOR_PAIRS) =>
          returned' = COLOR_PAIRS[call_args']

C20_PairHandles ==
    /\ [](PairsInjective /\ HandlesFromOne)
    /\ [][PairsKeep]_vars

\* the first init_pair failed on (-1, -1), the fallback set pair 1 to white
\* on black, and the handle is kept under (-1, -1); a later call gets it back
C20_Witness ==
    /\ pc = "paired"
    /\ Cardinality(DOMAIN COLOR_PAIRS) = 3
    /\ <<-1, -1>> \in DOMAIN COLOR_PAIRS
    /\ COLOR_PAIRS[<<-1, -1>>] = 1
    /\ 1 \in DOMAIN init_pairs
    /\ init_pairs[1] = <<DEFAULT_FOREGROUND, DEFAULT_BACKGROUND>>
    /\ 2 \notin DOMAIN init_pairs
    /\ call_args = <<-1, -1>>
    /\ returned = 1

====
